---- MODULE Spec2Model ----
(***************************************************************************)
(* One Session of plexPingPong (src/unnamed/part_001, the revision with    *)
(* connectionTimeout / retryDelay / reconnectAttemptCount and with         *)
(* destroy(plex) in performDisconnect; src/lib/plexPingPong.js is the same *)
(* function without those four things).                                    *)
(*                                                                         *)
(* The state is what the subscribe function of `new Observable(...)` keeps *)
(* in its closure, plus the rxjs subscriptions and timers it creates, plus *)
(* the Plex endpoint and the streams handed out by connect$ /              *)
(* listenAndConnection$.  JavaScript runs every callback to completion, so *)
(* every callback is one atomic action; the calls a callback makes         *)
(* synchronously (disconnect$.next() reaching its observers,               *)
(* subscriber.error() running the teardown) are part of that action.       *)
(*                                                                         *)
(* rxjs operators are modelled by what they do:                            *)
(*   takeUntil(n)  completes on n's next, and ignores n's complete;        *)
(*   timeout(d)    is timeout({each: d}): the timer runs from subscription *)
(*                 and again after every value, until the source ends;     *)
(*   switchMap     drops (unsubscribes) the previous inner on a new value; *)
(*   retry         {count, delay, resetOnSuccess};                         *)
(*   EMPTY         completes synchronously on subscription;                *)
(*   Subscriber    delivers nothing once it is stopped, and runs the       *)
(*                 teardown when it errors or is unsubscribed.             *)
(* Time is discrete; a timer holds its remaining time, NoTimer when it is  *)
(* not pending, and time cannot pass a pending timer that reached 0.       *)
(***************************************************************************)
EXTENDS Integers, FiniteSets, Sequences, TLC

\* ---------------------------------------------------------------- bounds
\* streams the channel provider hands out during one Session
MaxStreams == 2
\* config.interval / 2, in time units (config.interval is twice that)
HalfInterval == 1
\* config.connectionTimeout, config.retryDelay, config.reconnectAttemptCount
ConnectionTimeout == 2
RetryDelay == 1
ReconnectAttemptCount == 1
\* observation counters saturate here
CountCap == 2
\* depth to which calls of performDisconnect made from inside
\* performDisconnect are followed
MaxNesting == 2

Interval == 2 * HalfInterval
NoTimer == 0 - 1
StreamIds == 1 .. MaxStreams
NoStream == 0

Causes == {"Unsubscribed", "PlexClosed", "StreamDestroyed", "StreamCompleted",
           "HeartbeatTimeout", "AcquireTimeout", "AcquireError"}
NoCause == "none"

VARIABLES
    \* configuration (fixed at construction)
    isInitiator,        \* plexPingPong's second parameter
    onPingPongFailure,  \* "absent" | "function" | "throws" | "throwsNullish"
                        \* | "truthy" (set, but not a function)
    \* closure state of the subscribe function
    isDisconnected,
    pingSubscription,   \* stream whose interval() the variable refers to
    \* the consumer's Subscriber: "open" | "error" | "closed"
    subscriber,
    \* heartbeat$
    heartbeatSub,       \* heartbeatSubscription is active
    hbTimer,            \* the pending timeout(_interval) of heartbeat$
    \* connectionSubscription: connect$ / listenAndConnection$ pipeline
    conn,               \* "pending" | "open" | "sourceDone" | "retryWait" | "done"
    connTimer,          \* timeout(connectionTimeout)
    retryTimer,         \* retry's timer(retryDelay)
    soFar,              \* retry's counter
    inner,              \* stream of switchMap's active inner subscription
    \* streams handed out: status, data$ subscription, interval() timer
    stream,
    \* the Plex endpoint
    plexDestroyed, plexClosePending, plexCloseSub,
    \* observations (history, not program state)
    obs,
    \* two Sessions on the two ends of one createPlexPair() (the tests'
    \* setting); NoPair in the specification of a single Session
    pair

vars == << isInitiator, onPingPongFailure, isDisconnected, pingSubscription,
           subscriber, heartbeatSub, hbTimer, conn, connTimer, retryTimer,
           soFar, inner, stream, plexDestroyed, plexClosePending, plexCloseSub,
           obs, pair >>

NoPair == << >>

\* the state as one record, so that the code's functions are operators on it;
\* `out` collects what the running callback does to the outside (messages
\* received and written, notifications to the consumer) and `raised` tells
\* that it ended by an exception: both belong to the callback, not the state
Cur ==
    [ isInitiator |-> isInitiator, onPingPongFailure |-> onPingPongFailure,
      isDisconnected |-> isDisconnected, pingSubscription |-> pingSubscription,
      subscriber |-> subscriber, heartbeatSub |-> heartbeatSub,
      hbTimer |-> hbTimer, conn |-> conn, connTimer |-> connTimer,
      retryTimer |-> retryTimer, soFar |-> soFar, inner |-> inner,
      stream |-> stream, plexDestroyed |-> plexDestroyed,
      plexClosePending |-> plexClosePending, plexCloseSub |-> plexCloseSub,
      obs |-> obs, out |-> << >>, raised |-> FALSE ]

Io(op, id, tok) == [op |-> op, id |-> id, tok |-> tok]

\* how often the callback did `op` with token `tok` on stream `id`
Count(out, op, id, tok) ==
    Cardinality({i \in DOMAIN out : out[i] = Io(op, id, tok)})

\* "ping" writes of the callback, on whatever stream
PingWrites(out) ==
    Cardinality({i \in DOMAIN out : out[i].op = "write" /\ out[i].tok = "ping"})

\* the time since the last "ping" write after one more write: Early when the
\* write comes less than interval / 2 after the one before it
Early == 0 - 1
gapAfterPing(gap, n) ==
    IF n = 0 THEN gap
    ELSE IF n > 1 \/ gap = Early \/ gap < HalfInterval THEN Early
    ELSE 0

\* the callback's effects are out of order: an event comes before the
\* "pong" write (for a received "ping") or before heartbeatSubject.next()
\* (for a received "pong"), or one of the two is missing, or
\* heartbeatSubject.next() is called for a "ping"
Misordered(out) ==
    LET Before(a, b) == \A j \in DOMAIN out : out[j] = b =>
                            \E i \in 1 .. (j - 1) : out[i] = a
        Has(a) == \E i \in DOMAIN out : out[i] = a
        Arm == Io("arm", NoStream, "deadline")
    IN  \/ \E id \in StreamIds :
              /\ Has(Io("recv", id, "ping"))
              /\ \/ ~Has(Io("write", id, "pong"))
                 \/ ~Before(Io("write", id, "pong"), Io("next", NoStream, "ping"))
                 \/ Has(Arm)
        \/ \E id \in StreamIds :
              /\ Has(Io("recv", id, "pong"))
              /\ \/ ~Has(Arm)
                 \/ ~Before(Arm, Io("next", NoStream, "pong"))

\* the callback of a tick did not do what the stream's state asks for
BadTick(out) ==
    \E i \in DOMAIN out :
        /\ out[i].op = "tick"
        /\ LET id == out[i].id
               wrote == Count(out, "write", id, "ping")
               told == Count(out, "next", NoStream, "ping")
               calls == {j \in DOMAIN out : out[j].op = "call"}
           IN  IF out[i].tok # "destroyed"
               THEN ~(wrote = 1 /\ told = 1 /\ calls = {}
                        /\ PingWrites(out) = 1)
               ELSE ~(PingWrites(out) = 0
                        /\ \A j \in DOMAIN out : out[j].op # "next"
                        /\ \E c \in calls : /\ out[c].tok = "StreamDestroyed"
                                             /\ \A k \in calls : c <= k)

\* the callback did nothing an observer has to look into: at most it
\* received a message that is no heartbeat token and called performDisconnect
Uneventful(out) ==
    \A i \in DOMAIN out :
        \/ out[i].op = "call"
        \/ out[i].op = "recv" /\ out[i].tok \notin {"ping", "pong"}

\* what an observer of the callback's effects records of it
Observe(s) ==
    LET quiet == [s.obs EXCEPT
                    !.pingGap = IF s.isDisconnected THEN 0 ELSE @,
                    !.sinceArm = IF s.isDisconnected THEN 0 ELSE @,
                    !.missed = @ /\ ~s.isDisconnected,
                    !.consecFails = IF s.isDisconnected THEN 0 ELSE @,
                    !.writes = @ /\ ~s.isDisconnected,
                    !.answeredAgain = FALSE,
                    !.ignored = FALSE,
                    !.waited = IF s.obs.opened \/ s.obs.fault THEN 0 ELSE @,
                    !.escaped = @ \/ s.raised]
        junk == \E i \in DOMAIN s.out :
                    /\ s.out[i].op = "recv"
                    /\ s.out[i].tok \notin {"ping", "pong"}
    IN  IF Uneventful(s.out)
        THEN [quiet EXCEPT
                !.ignored =
                    /\ junk
                    /\ ~s.isDisconnected /\ ~s.obs.events /\ ~s.obs.writes
                    /\ s.obs.sinceArm = Interval - 1]
        ELSE [quiet EXCEPT
                !.pingGap = IF s.isDisconnected THEN 0
                            ELSE gapAfterPing(@, PingWrites(s.out)),
                !.badEvent = @ \/ \E i \in DOMAIN s.out :
                                     /\ s.out[i].op = "next"
                                     /\ s.out[i].tok \notin {"ping", "pong"},
                !.badPing = @ \/ (~s.isInitiator /\ PingWrites(s.out) > 0),
                !.unpaired = @ \/ \E id \in StreamIds :
                                     Count(s.out, "write", id, "pong")
                                         # Count(s.out, "recv", id, "ping"),
                !.ignored =
                    /\ junk
                    /\ ~s.isDisconnected /\ ~s.obs.events /\ ~s.obs.writes
                    /\ s.obs.sinceArm = Interval - 1,
                !.misordered = @ \/ Misordered(s.out),
                !.badTick = @ \/ BadTick(s.out),
                !.answeredAgain =
                    /\ ~s.isDisconnected
                    /\ \E id \in StreamIds \ {1} :
                          /\ Count(s.out, "recv", id, "ping") > 0
                          /\ Count(s.out, "write", id, "pong") > 0]

Becomes(s) ==
    /\ isInitiator' = s.isInitiator
    /\ onPingPongFailure' = s.onPingPongFailure
    /\ isDisconnected' = s.isDisconnected
    /\ pingSubscription' = s.pingSubscription
    /\ subscriber' = s.subscriber
    /\ heartbeatSub' = s.heartbeatSub
    /\ hbTimer' = s.hbTimer
    /\ conn' = s.conn
    /\ connTimer' = s.connTimer
    /\ retryTimer' = s.retryTimer
    /\ soFar' = s.soFar
    /\ inner' = s.inner
    /\ stream' = s.stream
    /\ plexDestroyed' = s.plexDestroyed
    /\ plexClosePending' = s.plexClosePending
    /\ plexCloseSub' = s.plexCloseSub
    /\ obs' = Observe(s)
    /\ pair' = pair

Bump(n) == IF n < CountCap THEN n + 1 ELSE n

NewStream == [status |-> "unused", data |-> FALSE, ping |-> NoTimer]

InitObs ==
    [ pdCalls |-> 0,          \* calls of performDisconnect
      cleanupRuns |-> 0,      \* runs of its guarded body
      handlerCalls |-> 0,     \* calls of onPingPongFailure
      errorsDelivered |-> 0,  \* errors the consumer received
      firstCause |-> NoCause, \* argument of the first performDisconnect call
      handlerCause |-> NoCause,
      terminalCause |-> NoCause,
      plexDestroys |-> 0,     \* calls of destroy(plex)
      events |-> FALSE,       \* the consumer received a { type, plex } event
      writes |-> FALSE,       \* the live Session has called stream.write
      lateEvent |-> FALSE,    \* an event delivered after performDisconnect
      lateWrite |-> FALSE,    \* a write made after performDisconnect
      lateAttempt |-> FALSE,  \* an acquisition started after performDisconnect
      cancelCalls |-> 0,      \* calls of subscription.unsubscribe()
      cancelInner |-> NoStream, \* the channel open at the first cancel
      cancelEvents |-> FALSE, \* events were delivered before the first cancel
      cancelLateEvent |-> FALSE, \* an event delivered after an unsubscribe
      cancelConn |-> "none",  \* the pipeline's state at the first cancel
      cancelLive |-> FALSE,   \* the first cancel found the Session live
      consecFails |-> 0,      \* live Session: failed attempts since the
                              \* last open
      exhausted |-> FALSE,    \* retry gave up and reported the error
      opened |-> FALSE,       \* a channel was opened
      fault |-> FALSE,        \* plex close, stream destruction, provider
                              \* error or cancellation has happened
      sinceArm |-> 0,         \* time since heartbeatSubject.next(), up to
                              \* the first heartbeat missed
      missed |-> FALSE,       \* live Session: `interval` went by without a
                              \* "pong"
      escaped |-> FALSE,      \* a callback of the Session ended by an exception
      unpaired |-> FALSE,     \* a callback's "pong" writes differed from the
                              \* "ping" it received, on some stream
      answeredAgain |-> FALSE, \* the callback that just ran answered a
                               \* "ping" on a stream acquired after the
                               \* first, in a live Session
      pingGap |-> 0,          \* initiator: time since the channel opened or
                              \* the last "ping" was written, or Early
      badEvent |-> FALSE,     \* an event of a type other than ping and pong
      badPing |-> FALSE,      \* a "ping" written by a Session that listens
      afterEnd |-> FALSE,     \* an event delivered after the terminal error
      ignored |-> FALSE,      \* the callback that just ran received a message
                              \* that is no heartbeat token, in a live Session
                              \* whose deadline was one time unit from running
                              \* out and that had written and emitted nothing
      badTick |-> FALSE,      \* a tick of interval() on a live stream did
                              \* other than write one "ping" and emit one
                              \* "ping" event, or a tick on a destroyed stream
                              \* other than call performDisconnect('Stream
                              \* destroyed') without writing or emitting
      misordered |-> FALSE,   \* a callback emitted its event before the
                              \* "pong" write or heartbeatSubject.next() it
                              \* owed, or called heartbeatSubject.next() for
                              \* a "ping"
      waited |-> 0 ]          \* time a Session that runs undisturbed has
                              \* spent without the provider answering


\* ------------------------------------------------- rxjs Subscriber, streams
\* subscriber.next({ type, plex }): a stopped Subscriber delivers nothing
subscriberNext(s, type) ==
    IF s.subscriber = "open"
    THEN [s EXCEPT !.out = Append(@, Io("next", NoStream, type)),
                   !.obs.events = TRUE,
                   !.obs.lateEvent = @ \/ s.obs.pdCalls > 0,
                   !.obs.afterEnd = @ \/ s.obs.errorsDelivered > 0,
                   !.obs.cancelLateEvent = @ \/ s.obs.cancelCalls > 0]
    ELSE s

\* stream.write(token)
streamWrite(s, id, tok) ==
    [s EXCEPT !.out = Append(@, Io("write", id, tok)),
              !.obs.writes = TRUE,
              !.obs.lateWrite = @ \/ s.obs.pdCalls > 0]

\* pingSubscription.unsubscribe(), when pingSubscription is set
unsubscribePing(s) ==
    IF s.pingSubscription # NoStream
    THEN [s EXCEPT !.stream[s.pingSubscription].ping = NoTimer]
    ELSE s

\* a source that never completes (NEVER) in the place of EMPTY
innerSourceNever == FALSE

\* The source of heartbeat$'s inner observable is EMPTY: it has completed
\* by the time timeout() starts its timer.
innerSourceCompleted == TRUE

\* timeout(d) over a source: the timer is pending only while the
\* subscriber is open, so a source that completed on subscription leaves none
timeoutTimer(sourceCompleted, d) == IF sourceCompleted THEN NoTimer ELSE d

\* heartbeatSubject.next(): switchMap starts a fresh inner timeout
heartbeatNext(s) ==
    IF s.heartbeatSub
    THEN [s EXCEPT !.hbTimer = timeoutTimer(innerSourceCompleted, Interval),
                   !.out = Append(@, Io("arm", NoStream, "deadline")),
                   !.obs.sinceArm = IF s.obs.missed THEN @ ELSE 0]
    ELSE s

\* performDisconnect that leaves the plex alone
destroyPlexSkipped(s) == s

\* if (!plex.destroyed) destroy(plex): close$ will notify
destroyPlex(s) ==
    IF ~s.plexDestroyed
    THEN [s EXCEPT !.plexDestroyed = TRUE, !.plexClosePending = TRUE,
                   !.obs.plexDestroys = Bump(@)]
    ELSE s

\* the handler called with a new Error instead of the cause
callHandlerDefaultError(s, error) ==
    IF s.onPingPongFailure \in {"function", "throws", "throwsNullish"}
    THEN [s EXCEPT !.obs.handlerCalls = Bump(@),
                   !.obs.handlerCause = "PingPongFailure",
                   !.raised = s.onPingPongFailure = "throwsNullish"]
    ELSE s

\* the onPingPongFailure branch: called when it is a function; what it
\* throws is caught, and the catch block reads handlerError.message (the
\* argument of logMessage, evaluated whether or not `log` is set), which
\* throws a TypeError when the handler threw null or undefined
callHandler(s, error) ==
    IF s.onPingPongFailure \in {"function", "throws", "throwsNullish"}
    THEN [s EXCEPT !.obs.handlerCalls = Bump(@), !.obs.handlerCause = error,
                   !.raised = s.onPingPongFailure = "throwsNullish"]
    ELSE s

\* performDisconnect without its guard
cleanupNotGuarded(s) == TRUE

\* if (!isDisconnected)
notYetDisconnected(s) == ~s.isDisconnected

\* a performDisconnect that leaves the flag as it is
raiseFlagNever(s) == s

\* isDisconnected = true, the first statement of the guarded body
raiseFlag(s) == [s EXCEPT !.isDisconnected = TRUE]

\* a teardown that leaves connectionSubscription subscribed
unsubscribeConnectionForgotten(s) == s

\* connectionSubscription.unsubscribe()
unsubscribeConnection(s) ==
    [s EXCEPT !.conn = "done", !.connTimer = NoTimer, !.retryTimer = NoTimer,
              !.inner = NoStream]

\* ------------------------------------------- performDisconnect and teardown
RECURSIVE performDisconnect(_, _, _)
RECURSIVE completeData(_, _, _)
RECURSIVE failurePolicy(_, _, _)

\* disconnect$.next() reaching each data$ (takeUntil completes it, and its
\* complete callback calls performDisconnect) and each interval()
completeData(s, ids, depth) ==
    IF ids = {} THEN s
    ELSE LET id == CHOOSE i \in ids : \A j \in ids : i <= j
             off == [s EXCEPT !.stream[id].data = FALSE,
                              !.stream[id].ping = NoTimer]
             nxt == IF s.stream[id].data
                    THEN performDisconnect(off, "StreamCompleted", depth + 1)
                    ELSE off
         IN  completeData(nxt, ids \ {id}, depth)

\* the tap without stream.destroy()
innerTapNoDestroy(s) ==
    LET d == [s EXCEPT !.stream[s.inner].data = FALSE]
        u == IF d.isInitiator THEN unsubscribePing(d) ELSE d
    IN  [u EXCEPT !.inner = NoStream, !.soFar = 0,
                  !.conn = IF @ = "sourceDone" THEN "done" ELSE @]

\* the inner observable of switchMap, disconnect$.pipe(tap(...), take(1)),
\* on disconnect$'s next: the stream is destroyed, streamSubscription and
\* (initiator) pingSubscription are unsubscribed, the value goes on to retry
\* (resetOnSuccess: soFar = 0), the inner completes and with it the pipeline
\* when its source has ended
innerTap(s) ==
    LET d == [s EXCEPT !.stream[s.inner].status = "destroyed",
                       !.stream[s.inner].data = FALSE]
        u == IF d.isInitiator THEN unsubscribePing(d) ELSE d
    IN  [u EXCEPT !.inner = NoStream, !.soFar = 0,
                  !.conn = IF @ = "sourceDone" THEN "done" ELSE @]

\* disconnect$.next(), observers in the order they subscribed: heartbeat$,
\* the connection pipeline, every data$ and interval(), the inner tap
disconnectNext(s, depth) ==
    LET hb   == [s EXCEPT !.heartbeatSub = FALSE, !.hbTimer = NoTimer]
        pipe == IF hb.conn \in {"pending", "open"}
                THEN [hb EXCEPT !.connTimer = NoTimer,
                                !.conn = IF hb.inner # NoStream
                                         THEN "sourceDone" ELSE "done"]
                ELSE hb
        dat  == completeData(pipe, StreamIds, depth)
    IN  IF dat.inner # NoStream THEN innerTap(dat) ELSE dat

\* the function the subscribe function returns
\* an exception out of performDisconnect leaves the rest of it unexecuted
teardown(s, depth) ==
    LET pd == performDisconnect(s, "Unsubscribed", depth)
        un == unsubscribeConnection([pd EXCEPT !.plexCloseSub = FALSE])
    IN  IF pd.raised THEN pd
        ELSE unsubscribePing([un EXCEPT !.heartbeatSub = FALSE,
                                        !.hbTimer = NoTimer])

\* subscriber.error(error): delivered once, then the Subscriber unsubscribes
subscriberError(s, error, depth) ==
    IF s.subscriber = "open"
    THEN teardown([s EXCEPT !.subscriber = "error",
                            !.obs.errorsDelivered = Bump(@),
                            !.obs.terminalCause = error], depth + 1)
    ELSE s

\* subscriber.error with a new Error instead of the cause
failurePolicyDefaultError(s, error, depth) ==
    LET hnd == callHandler(s, error)
    IN  IF hnd.onPingPongFailure = "absent"
        THEN subscriberError(hnd, "PingPongFailure", depth)
        ELSE hnd

\* the two ifs that end performDisconnect: the handler when it is a
\* function, subscriber.error(error) when there is no onPingPongFailure
failurePolicy(s, error, depth) ==
    LET hnd == callHandler(s, error)
    IN  IF hnd.onPingPongFailure = "absent"
        THEN subscriberError(hnd, error, depth)
        ELSE hnd

performDisconnect(s, error, depth) ==
    LET c == [s EXCEPT !.out = Append(@, Io("call", NoStream, error)),
                       !.obs.pdCalls = Bump(@),
                       !.obs.firstCause = IF @ = NoCause THEN error ELSE @]
    IN  IF depth > MaxNesting \/ ~notYetDisconnected(c) THEN c
        ELSE LET flag == [raiseFlag(c) EXCEPT !.obs.cleanupRuns = Bump(@)]
                 sig  == disconnectNext(flag, depth)
                 png  == unsubscribePing(sig)
             IN  failurePolicy(destroyPlex(png), error, depth)


\* ------------------------------------------------------ connection pipeline
\* A stream emitted by connect$ / listenAndConnection$ passes timeout (the
\* timer restarts), switchMap (the previous inner is dropped, handleStream
\* subscribes data$, an initiator starts interval(_interval / 2), the new
\* inner subscribes disconnect$, which completes at once when disconnect$
\* has completed).  The stream stops at switchMap: what goes on to retry is
\* what the inner emits, so retry's counter is left as it is
onStream(s, id) ==
    [s EXCEPT !.conn = "open",
              !.connTimer = ConnectionTimeout,
              !.stream[id] = [status |-> "open", data |-> TRUE,
                              ping |-> IF s.isInitiator THEN HalfInterval
                                       ELSE NoTimer],
              !.pingSubscription = IF s.isInitiator THEN id ELSE @,
              !.inner = IF s.isDisconnected THEN NoStream ELSE id,
              !.obs.consecFails = 0,
              !.obs.opened = TRUE]

\* retry that allows one attempt more than reconnectAttemptCount
failAttemptOneMore(s, err) ==
    LET off == [s EXCEPT !.inner = NoStream, !.connTimer = NoTimer,
                         !.soFar = @ + 1,
                         !.obs.consecFails = @ + 1]
    IN  IF s.soFar <= ReconnectAttemptCount
        THEN [off EXCEPT !.conn = "retryWait", !.retryTimer = RetryDelay]
        ELSE performDisconnect([off EXCEPT !.conn = "done",
                                           !.obs.exhausted = TRUE], err, 0)

\* retry({ delay: retryDelay, count: reconnectAttemptCount }) on an error of
\* the attempt; the error callback of the subscription calls
\* performDisconnect when retry gives up
failAttempt(s, err) ==
    LET off == [s EXCEPT !.inner = NoStream, !.connTimer = NoTimer,
                         !.soFar = @ + 1,
                         !.obs.consecFails = @ + 1]
    IN  IF s.soFar < ReconnectAttemptCount
        THEN [off EXCEPT !.conn = "retryWait", !.retryTimer = RetryDelay]
        ELSE performDisconnect([off EXCEPT !.conn = "done",
                                           !.obs.exhausted = TRUE], err, 0)

\* retry's timer: the pipeline is subscribed again
resubscribe(s) ==
    [s EXCEPT !.conn = "pending", !.retryTimer = NoTimer,
              !.connTimer = ConnectionTimeout,
              !.obs.lateAttempt = @ \/ s.obs.pdCalls > 0]

\* catchError of heartbeat$: the deadline elapsed
heartbeatExpired(s) ==
    performDisconnect([s EXCEPT !.hbTimer = NoTimer], "HeartbeatTimeout", 0)

\* a tap without the filter before it, reporting whatever arrives
onDataUnfiltered(s, id, msg) ==
    IF msg = "ping" THEN subscriberNext(streamWrite(s, id, "pong"), "ping")
    ELSE IF msg = "pong" THEN subscriberNext(heartbeatNext(s), "pong")
    ELSE subscriberNext(s, msg)

\* a tap that answers "ping" only in the acceptor role
onDataAcceptorOnly(s, id, msg) ==
    IF msg = "ping"
    THEN subscriberNext(IF s.isInitiator THEN s
                        ELSE streamWrite(s, id, "pong"), "ping")
    ELSE IF msg = "pong" THEN subscriberNext(heartbeatNext(s), "pong")
    ELSE s

\* a tap that reports to the consumer first
onDataEventFirst(s, id, msg) ==
    IF msg = "ping" THEN streamWrite(subscriberNext(s, "ping"), id, "pong")
    ELSE IF msg = "pong" THEN heartbeatNext(subscriberNext(s, "pong"))
    ELSE s

\* the tap of handleStream, after filter
onData(s, id, msg) ==
    IF msg = "ping" THEN subscriberNext(streamWrite(s, id, "pong"), "ping")
    ELSE IF msg = "pong" THEN subscriberNext(heartbeatNext(s), "pong")
    ELSE s

\* an interval callback that writes "ping" and reports nothing
pingTickSilent(s, id) ==
    LET again == [s EXCEPT !.stream[id].ping = HalfInterval]
    IN  IF again.stream[id].status # "destroyed"
        THEN streamWrite(again, id, "ping")
        ELSE performDisconnect(again, "StreamDestroyed", 0)

\* an interval callback that does not look at stream.destroyed
pingTickUnchecked(s, id) ==
    LET again == [s EXCEPT !.stream[id].ping = HalfInterval,
                           !.out = Append(@, Io("tick", id,
                                                s.stream[id].status))]
    IN  subscriberNext(streamWrite(again, id, "ping"), "ping")

\* the callback of interval(_interval / 2)
pingTick(s, id) ==
    LET again == [s EXCEPT !.stream[id].ping = HalfInterval,
                           !.out = Append(@, Io("tick", id,
                                                s.stream[id].status))]
    IN  IF again.stream[id].status # "destroyed"
        THEN subscriberNext(streamWrite(again, id, "ping"), "ping")
        ELSE performDisconnect(again, "StreamDestroyed", 0)

\* a Session that does not listen to plex.close$
onPlexCloseIgnored(s) == s

\* the callback of plex.close$
onPlexClose(s) == performDisconnect(s, "PlexClosed", 0)

\* ------------------------------------------------------------------ actions
Init ==
    /\ isInitiator \in BOOLEAN
    /\ onPingPongFailure \in {"absent", "function", "throws", "throwsNullish",
                             "truthy"}
    /\ isDisconnected = FALSE
    /\ pingSubscription = NoStream
    /\ subscriber = "open"
    /\ heartbeatSub = TRUE
    /\ hbTimer = timeoutTimer(innerSourceCompleted, Interval)
    /\ conn = "pending"
    /\ connTimer = ConnectionTimeout
    /\ retryTimer = NoTimer
    /\ soFar = 0
    /\ inner = NoStream
    /\ stream = [i \in StreamIds |-> NewStream]
    /\ plexDestroyed = FALSE
    /\ plexClosePending = FALSE
    /\ plexCloseSub = TRUE
    /\ obs = InitObs
    /\ pair = NoPair

\* the provider yields the next stream; none opens on a destroyed plex
AcquireOpen ==
    \E id \in StreamIds :
        /\ conn \in {"pending", "open"}
        /\ ~plexDestroyed
        /\ stream[id].status = "unused"
        /\ \A j \in StreamIds : j < id => stream[j].status # "unused"
        /\ Becomes(onStream(Cur, id))

\* the provider's observable errors
AcquireError ==
    /\ conn \in {"pending", "open"}
    /\ Becomes(failAttempt([Cur EXCEPT !.obs.fault = TRUE], "AcquireError"))

\* the provider's observable completes
AcquireComplete ==
    /\ conn \in {"pending", "open"}
    /\ Becomes([Cur EXCEPT !.connTimer = NoTimer,
                           !.conn = IF inner # NoStream THEN "sourceDone"
                                    ELSE "done"])

\* the callback of the timer that reached 0
timerCallback(s, t) ==
    CASE t = "heartbeat" -> heartbeatExpired(s)
      [] t = "connection" -> failAttempt(s, "AcquireTimeout")
      [] t = "retry" -> resubscribe(s)

TimerOf(t) ==
    CASE t = "heartbeat" -> hbTimer
      [] t = "connection" -> connTimer
      [] t = "retry" -> retryTimer

\* a timer that reached 0 runs its callback
TimerFires ==
    \E t \in {"heartbeat", "connection", "retry"} :
        /\ TimerOf(t) = 0
        /\ Becomes(timerCallback(Cur, t))

PingTick ==
    \E id \in StreamIds :
        /\ stream[id].ping = 0
        /\ Becomes(pingTick(Cur, id))

\* a 'data' event of a stream that data$ listens to
Receive ==
    \E id \in StreamIds, msg \in {"ping", "pong", "other"} :
        /\ stream[id].status = "open"
        /\ stream[id].data
        /\ Becomes(onData([Cur EXCEPT !.out = << Io("recv", id, msg) >>],
                           id, msg))

\* the stream is destroyed from outside the Session
StreamDestroyed ==
    \E id \in StreamIds :
        /\ stream[id].status = "open"
        /\ Becomes([Cur EXCEPT !.stream[id].status = "destroyed",
                                !.obs.fault = TRUE])

\* the plex is destroyed from outside the Session
PlexDestroyed ==
    /\ ~plexDestroyed
    /\ Becomes([Cur EXCEPT !.plexDestroyed = TRUE,
                            !.plexClosePending = TRUE,
                            !.obs.fault = TRUE])

\* plex.close$ emits
PlexCloseNotify ==
    /\ plexClosePending
    /\ Becomes(IF plexCloseSub
               THEN onPlexClose([Cur EXCEPT !.plexClosePending = FALSE])
               ELSE [Cur EXCEPT !.plexClosePending = FALSE])

\* the consumer calls unsubscribe() on its subscription
Unsubscribe ==
    /\ obs.cancelCalls < CountCap
    /\ LET first == obs.cancelCalls = 0
           c == [Cur EXCEPT !.obs.cancelCalls = @ + 1,
                            !.obs.fault = TRUE,
                            !.obs.cancelInner = IF first THEN inner ELSE @,
                            !.obs.cancelEvents =
                                IF first THEN obs.events ELSE @,
                            !.obs.cancelConn = IF first THEN conn ELSE @,
                            !.obs.cancelLive =
                                IF first THEN ~isDisconnected ELSE @]
       IN  Becomes(IF subscriber = "open"
                   THEN teardown([c EXCEPT !.subscriber = "closed"], 1)
                   ELSE c)

Dec(t) == IF t > 0 THEN t - 1 ELSE t

\* some pending timer of the Session has reached 0
overdue(s) ==
    \/ s.hbTimer = 0 \/ s.connTimer = 0 \/ s.retryTimer = 0
    \/ \E id \in StreamIds : s.stream[id].ping = 0

\* one unit of time passes for the Session's timers
timePasses(s) ==
    [s EXCEPT
       !.hbTimer = Dec(@), !.connTimer = Dec(@), !.retryTimer = Dec(@),
       !.stream = [id \in StreamIds |-> [s.stream[id] EXCEPT !.ping = Dec(@)]],
       !.obs.sinceArm = IF @ < Interval /\ ~s.isDisconnected
                        THEN @ + 1 ELSE @,
       !.obs.missed = @ \/ (~s.isDisconnected
                              /\ s.obs.sinceArm + 1 >= Interval),
       !.obs.pingGap = IF ~s.isInitiator \/ ~s.obs.opened \/ s.isDisconnected
                       THEN 0
                       ELSE IF @ = Early THEN 1
                       ELSE IF @ <= HalfInterval THEN @ + 1 ELSE @,
       !.obs.waited = IF \/ s.obs.opened \/ s.obs.fault \/ s.isDisconnected
                         \/ s.conn \notin {"pending", "retryWait"}
                      THEN @ ELSE @ + 1]

\* one unit of time passes; no pending timer is overdue
Tick ==
    /\ ~overdue(Cur)
    /\ Becomes(timePasses(Cur))

Next ==
    \/ AcquireOpen
    \/ AcquireError
    \/ AcquireComplete
    \/ TimerFires
    \/ PingTick
    \/ Receive
    \/ StreamDestroyed
    \/ PlexDestroyed
    \/ PlexCloseNotify
    \/ Unsubscribe
    \/ Tick

Spec == Init /\ [][Next]_vars

\* --------------------------------------------------------- pair of Sessions
\* The tests' setting: createPlexPair() gives two connected plexes, the
\* initiator Session runs on one and the listener Session on the other, with
\* no onPingPongFailure.  The transport loses nothing and is faster than one
\* unit of time: what is in flight (a message, a close notification, the
\* opening of a channel) arrives before time passes.  What the two ends do
\* to each other is the environment's part: a channel the initiator connects
\* opens on both ends while the listener listens, destroying a plex closes
\* the other plex (the tests expect both close$ to emit after one destroy),
\* and destroying one end of a channel destroys the other end.
Sides == {"ini", "acc"}
Other(x) == IF x = "ini" THEN "acc" ELSE "ini"

\* the state of a Session when its subscribe function has returned
NewSession(initiator, handler) ==
    [ isInitiator |-> initiator, onPingPongFailure |-> handler,
      isDisconnected |-> FALSE, pingSubscription |-> NoStream,
      subscriber |-> "open", heartbeatSub |-> TRUE,
      hbTimer |-> timeoutTimer(innerSourceCompleted, Interval),
      conn |-> "pending", connTimer |-> ConnectionTimeout,
      retryTimer |-> NoTimer, soFar |-> 0, inner |-> NoStream,
      stream |-> [i \in StreamIds |-> NewStream],
      plexDestroyed |-> FALSE, plexClosePending |-> FALSE,
      plexCloseSub |-> TRUE, obs |-> InitObs, out |-> << >>,
      raised |-> FALSE ]

\* the Session as it is kept between two callbacks
Settle(s) == [s EXCEPT !.obs = Observe(s), !.out = << >>, !.raised = FALSE]

\* the messages the callback wrote, and the types of the events it delivered
Sent(out) == SelectSeq(out, LAMBDA e : e.op = "write")
Types(out) == {out[i].tok : i \in {k \in DOMAIN out : out[k].op = "next"}}

\* the other plex of the pair closes
closedByPeer(s) ==
    IF s.plexDestroyed THEN s
    ELSE [s EXCEPT !.plexDestroyed = TRUE, !.plexClosePending = TRUE]

\* the far end of channel `id` was destroyed
endDestroyed(s, id) ==
    IF s.stream[id].status = "open"
    THEN [s EXCEPT !.stream[id].status = "destroyed"]
    ELSE s

NoClock == 0 - 1
Later(c, cap) == IF c = NoClock \/ c >= cap THEN c ELSE c + 1

\* a callback of side x has run and left the Session as r: what it wrote is
\* on its way to the peer, and a plex it destroyed closes the peer's plex
PairStep(x, r) ==
    pair' = [pair EXCEPT
               !.side = [y \in Sides |->
                           IF y = x THEN Settle(r)
                           ELSE IF r.plexDestroyed /\ ~pair.side[x].plexDestroyed
                                THEN closedByPeer(pair.side[y])
                                ELSE pair.side[y]],
               !.wire = [y \in Sides |->
                           IF y = x THEN pair.wire[y]
                           ELSE pair.wire[y] \o Sent(r.out)],
               !.seen = [y \in Sides |->
                           IF y = x THEN pair.seen[y] \cup Types(r.out)
                           ELSE pair.seen[y]]]

Single ==
    /\ isInitiator = TRUE
    /\ onPingPongFailure = "absent"
    /\ isDisconnected = FALSE
    /\ pingSubscription = NoStream
    /\ subscriber = "open"
    /\ heartbeatSub = TRUE
    /\ hbTimer = timeoutTimer(innerSourceCompleted, Interval)
    /\ conn = "pending"
    /\ connTimer = ConnectionTimeout
    /\ retryTimer = NoTimer
    /\ soFar = 0
    /\ inner = NoStream
    /\ stream = [i \in StreamIds |-> NewStream]
    /\ plexDestroyed = FALSE
    /\ plexClosePending = FALSE
    /\ plexCloseSub = TRUE
    /\ obs = InitObs

SingleVars == << isInitiator, onPingPongFailure, isDisconnected,
                 pingSubscription, subscriber, heartbeatSub, hbTimer, conn,
                 connTimer, retryTimer, soFar, inner, stream, plexDestroyed,
                 plexClosePending, plexCloseSub, obs >>

PairInit ==
    /\ Single
    /\ pair = [ side |-> [x \in Sides |-> NewSession(x = "ini", "absent")],
                wire |-> [x \in Sides |-> << >>],
                seen |-> [x \in Sides |-> {}],
                now |-> 0,          \* time since both subscribed
                since |-> NoClock ] \* time since the test destroyed something

\* the initiator's connect$ and the listener's listenAndConnection$ emit the
\* two ends of a new channel
CanOpen(id) ==
    /\ pair.side["ini"].conn = "pending"
    /\ pair.side["acc"].conn \in {"pending", "open"}
    /\ \A x \in Sides : ~pair.side[x].plexDestroyed
    /\ \A x \in Sides : pair.side[x].stream[id].status = "unused"
    /\ \A j \in StreamIds :
          j < id => pair.side["ini"].stream[j].status # "unused"

PairOpen ==
    \E id \in StreamIds :
        /\ CanOpen(id)
        /\ pair' = [pair EXCEPT
                      !.side = [x \in Sides |->
                                  Settle(onStream(pair.side[x], id))]]
        /\ UNCHANGED SingleVars

SideTimer(s, t) ==
    CASE t = "heartbeat" -> s.hbTimer
      [] t = "connection" -> s.connTimer
      [] t = "retry" -> s.retryTimer

PairTimerFires ==
    \E x \in Sides, t \in {"heartbeat", "connection", "retry"} :
        /\ SideTimer(pair.side[x], t) = 0
        /\ PairStep(x, timerCallback(pair.side[x], t))
        /\ UNCHANGED SingleVars

PairPingTick ==
    \E x \in Sides, id \in StreamIds :
        /\ pair.side[x].stream[id].ping = 0
        /\ PairStep(x, pingTick(pair.side[x], id))
        /\ UNCHANGED SingleVars

\* the message at the head of the wire arrives: a 'data' event when data$
\* listens to the stream
PairDeliver ==
    \E x \in Sides :
        /\ pair.wire[x] # << >>
        /\ LET m == Head(pair.wire[x])
               s == pair.side[x]
               r == IF s.stream[m.id].status = "open" /\ s.stream[m.id].data
                    THEN onData([s EXCEPT !.out = << Io("recv", m.id, m.tok) >>],
                                m.id, m.tok)
                    ELSE s
               q == [pair EXCEPT !.wire[x] = Tail(@)]
           IN  pair' = [q EXCEPT
                          !.side[x] = Settle(r),
                          !.wire[Other(x)] = @ \o Sent(r.out),
                          !.seen[x] = @ \cup Types(r.out)]
        /\ UNCHANGED SingleVars

PairCloseNotify ==
    \E x \in Sides :
        /\ pair.side[x].plexClosePending
        /\ LET s == [pair.side[x] EXCEPT !.plexClosePending = FALSE]
           IN  PairStep(x, IF s.plexCloseSub THEN onPlexClose(s) ELSE s)
        /\ UNCHANGED SingleVars

Running == \A x \in Sides : ~pair.side[x].isDisconnected

\* the test calls destroy(listenerPlex)
PairDestroyPlex ==
    /\ pair.since = NoClock
    /\ Running
    /\ ~pair.side["acc"].plexDestroyed
    /\ pair' = [pair EXCEPT
                  !.side = [x \in Sides |-> closedByPeer(pair.side[x])],
                  !.since = 0]
    /\ UNCHANGED SingleVars

\* the listener's end of a channel is destroyed
PairDestroyChannel ==
    \E id \in StreamIds :
        /\ pair.since = NoClock
        /\ Running
        /\ pair.side["acc"].stream[id].status = "open"
        /\ pair' = [pair EXCEPT
                      !.side = [x \in Sides |-> endDestroyed(pair.side[x], id)],
                      !.since = 0]
        /\ UNCHANGED SingleVars

\* nothing is in flight and no timer is overdue
NothingDue ==
    /\ \A x \in Sides : /\ pair.wire[x] = << >>
                        /\ ~pair.side[x].plexClosePending
                        /\ ~overdue(pair.side[x])
    /\ \A id \in StreamIds : ~CanOpen(id)

\* one unit of time passes
PairTick ==
    /\ NothingDue
    /\ pair' = [pair EXCEPT
                  !.side = [x \in Sides |-> Settle(timePasses(pair.side[x]))],
                  !.now = Later(@, 2 * HalfInterval + 1),
                  !.since = Later(@, HalfInterval + 1)]
    /\ UNCHANGED SingleVars

PairNext ==
    \/ PairOpen
    \/ PairTimerFires
    \/ PairPingTick
    \/ PairDeliver
    \/ PairCloseNotify
    \/ PairDestroyPlex
    \/ PairDestroyChannel
    \/ PairTick

PairSpec == PairInit /\ [][PairNext]_vars



\* ------------------------------------------------------------------- claims

\* C1: the guarded body of performDisconnect (stop signal, destroy(plex),
\* failure reporting) runs at most once per Session, whatever calls are made
\* and also for the calls made from inside the first call; a call made once
\* the Session is disconnected changes nothing, calls no handler and emits
\* nothing (only the call itself is counted).
C1_CleanupAtMostOnce ==
    /\ obs.cleanupRuns <= 1
    /\ obs.handlerCalls <= 1
    /\ obs.errorsDelivered <= 1
    /\ obs.plexDestroys <= 1
    /\ isDisconnected <=> obs.cleanupRuns = 1
    /\ isDisconnected =>
         \A c \in Causes :
            performDisconnect(Cur, c, 0)
                = [Cur EXCEPT !.obs.pdCalls = Bump(@),
                              !.out = << Io("call", NoStream, c) >>]

\* the first call made further calls from inside itself (the data$ complete
\* callback, the teardown run by subscriber.error), and the body ran once
C1_Witness ==
    /\ onPingPongFailure = "absent"
    /\ obs.cancelCalls = 0
    /\ obs.opened
    /\ obs.pdCalls >= 2
    /\ obs.cleanupRuns = 1
    /\ obs.errorsDelivered = 1

\* C2: when `interval` time units have passed since heartbeatSubject.next()
\* (at start, or at a "pong") without a "pong", the Session is disconnected.
C2_MissedHeartbeatDisconnects ==
    (obs.sinceArm >= Interval /\ hbTimer # 0) => isDisconnected


\* C3: a live initiator that has opened a channel and has seen a "pong"
\* within every `interval` is not disconnected by a step in which it meets
\* no plex close, no stream destruction, no provider error and no
\* cancellation.
C3_LiveUnderAcknowledgment ==
    [][(/\ isInitiator /\ obs.opened /\ ~obs.missed /\ ~isDisconnected
        /\ ~obs'.fault)
            => ~isDisconnected']_vars


\* C4: of the attempts that fail in a row (since the start or the last
\* open), each of the first reconnectAttemptCount schedules one more attempt
\* after retryDelay and does not call performDisconnect; the next one calls
\* performDisconnect and ends the pipeline: no attempt is started after it,
\* and an attempt is only ever started by the retry timer running out.
C4_RetryBound ==
    /\ [](/\ obs.consecFails <= ReconnectAttemptCount
          /\ (conn = "retryWait" /\ ~isDisconnected) =>
                /\ obs.consecFails \in 1 .. ReconnectAttemptCount
                /\ retryTimer \in 0 .. RetryDelay
          /\ obs.exhausted =>
                /\ conn = "done" /\ retryTimer = NoTimer /\ connTimer = NoTimer
                /\ obs.pdCalls > 0)
    /\ [][(~isDisconnected /\ soFar' = soFar + 1) =>
            IF obs.consecFails < ReconnectAttemptCount
            THEN /\ conn' = "retryWait" /\ retryTimer' = RetryDelay
                 /\ obs'.consecFails = obs.consecFails + 1
                 /\ obs'.pdCalls = obs.pdCalls
                 /\ isDisconnected' = isDisconnected
            ELSE /\ obs'.exhausted /\ conn' = "done"
                 /\ obs'.pdCalls > obs.pdCalls]_vars
    /\ [][(conn' = "pending" /\ conn # "pending") =>
            (conn = "retryWait" /\ retryTimer = 0 /\ ~obs.exhausted)]_vars


HandlerConfigured ==
    onPingPongFailure \in {"function", "throws", "throwsNullish"}

C6_CauseDeliveredUnlessCancelled ==
    (onPingPongFailure = "absent" /\ isDisconnected) =>
        IF obs.firstCause = "Unsubscribed"
        THEN /\ obs.errorsDelivered = 0
             /\ obs.terminalCause = NoCause
             /\ subscriber = "closed"
        ELSE /\ obs.errorsDelivered = 1
             /\ obs.terminalCause = obs.firstCause
             /\ subscriber = "error"

\* C6 as stated: with no handler, the cause of the first performDisconnect
\* call is the terminal error the consumer received, for every cause.
C6_CauseDelivered ==
    (onPingPongFailure = "absent" /\ isDisconnected) =>
        obs.terminalCause = obs.firstCause

\* the ping timer found the stream destroyed, and the consumer got that cause
C6_Witness ==
    /\ onPingPongFailure = "absent"
    /\ obs.firstCause = "StreamDestroyed"
    /\ obs.terminalCause = "StreamDestroyed"
    /\ subscriber = "error"

\* C7: once performDisconnect has been called, the consumer receives no
\* event and no stream is written to, because no data$ subscription and no
\* ping timer is left; with or without a handler, and also when a retry was
\* pending at the disconnect.
C7_SilentAfterDisconnect ==
    /\ ~obs.lateEvent
    /\ ~obs.lateWrite
    /\ obs.pdCalls > 0 =>
          \A id \in StreamIds : ~stream[id].data /\ stream[id].ping = NoTimer

\* with a handler, the retry that was pending at the disconnect started a
\* new attempt afterwards, in a Session that had had a channel
C7_Witness ==
    /\ HandlerConfigured
    /\ obs.opened
    /\ obs.lateAttempt
    /\ conn = "pending"

\* C8: after the consumer has unsubscribed, in whatever state the Session
\* was, the feed is closed, the Session is disconnected, no data$ and no
\* ping timer is left, and no event was delivered since; nothing else of
\* the Session is left subscribed or pending either, unless the
\* unsubscription was the first disconnect and the handler it called threw
\* null or undefined (the teardown is then cut short).
C8_CancelTerminates ==
    obs.cancelCalls > 0 =>
        /\ subscriber # "open"
        /\ isDisconnected
        /\ \A id \in StreamIds : ~stream[id].data /\ stream[id].ping = NoTimer
        /\ ~obs.cancelLateEvent
        /\ (onPingPongFailure = "throwsNullish"
              /\ obs.firstCause = "Unsubscribed")
           \/ (/\ conn = "done" /\ inner = NoStream
               /\ connTimer = NoTimer /\ retryTimer = NoTimer
               /\ hbTimer = NoTimer
               /\ ~heartbeatSub /\ ~plexCloseSub)

\* the consumer unsubscribed from a live Session while a retry was pending
C8_Witness ==
    /\ obs.cancelCalls > 0
    /\ obs.cancelLive
    /\ obs.cancelConn = "retryWait"

CancelledHealthy ==
    /\ onPingPongFailure = "absent"
    /\ obs.cancelCalls > 0
    /\ obs.cancelLive
    /\ obs.cancelInner # NoStream

\* C10 (as amended): cancelling a healthy Session with no handler ends the
\* feed by the unsubscription itself: performDisconnect gets the cause
\* 'Unsubscribed' but no terminal signal reaches the consumer; the channel is
\* destroyed, and no event is delivered afterwards.
C10_CancelHealthy ==
    CancelledHealthy =>
        /\ obs.firstCause = "Unsubscribed"
        /\ obs.terminalCause = NoCause
        /\ obs.errorsDelivered = 0
        /\ subscriber = "closed"
        /\ stream[obs.cancelInner].status = "destroyed"
        /\ \A id \in StreamIds : ~stream[id].data
        /\ ~obs.cancelLateEvent

\* C10 as stated: the cancellation cause is the terminal signal of the feed,
\* the channel is destroyed and no event follows.
C10_CancelCauseIsTerminal ==
    CancelledHealthy =>
        /\ obs.terminalCause = "Unsubscribed"
        /\ stream[obs.cancelInner].status = "destroyed"
        /\ ~obs.cancelLateEvent

\* the Session had delivered an event before it was cancelled
C10_Witness ==
    /\ CancelledHealthy
    /\ obs.cancelEvents
    /\ obs.events

\* C11: in every callback of a Session the "pong" writes on a stream are
\* as many as the "ping" messages received on that stream: a received "ping"
\* is answered by exactly one "pong" on the same stream, and no "pong" is
\* written otherwise; in both roles, and on a stream acquired later too.
C11_PingAnsweredOnce == ~obs.unpaired

\* a "ping" has just been received and answered on a stream acquired after
\* the first, in a Session that is not disconnected
C11_Witness ==
    /\ obs.answeredAgain
    /\ ~isDisconnected
    /\ stream[1].status # "unused"

\* C12: in an initiator Session with a channel, one "ping" is written per
\* interval / 2 from the opening of the channel to the disconnect: never
\* more than interval / 2 passes without one, and never less than
\* interval / 2 lies between two of them, also after a re-acquisition.
C12_OnePingPerPeriod == obs.pingGap \in 0 .. HalfInterval

\* the pair has run undisturbed for 700 of the time units in which interval
\* is 500, that is for interval and something less than interval / 2
Ran700 ==
    /\ pair.since = NoClock
    /\ pair.now = 2 * HalfInterval
    /\ NothingDue

\* C13 (as amended): when an initiator and a listener Session have run on
\* the two ends of a loss-free pair for 700 time units with interval = 500,
\* the initiator has delivered "ping" events (for the pings it sent) and
\* "pong" events (for the pongs it received), and the listener has
\* delivered "ping" events (for the pings it received) and no "pong" event:
\* the listener is never sent a "pong".
C13_InitiatorBothListenerPing ==
    /\ "pong" \notin pair.seen["acc"]
    /\ Ran700 => /\ pair.seen["ini"] = {"ping", "pong"}
                 /\ pair.seen["acc"] = {"ping"}

\* C13 as stated: at 700 time units each of the two Sessions has delivered
\* a "ping" event and a "pong" event.
C13_BothSawPingAndPong ==
    Ran700 => \A x \in Sides : pair.seen[x] = {"ping", "pong"}

\* at 700 time units both Sessions are live on the first channel
C13_Witness ==
    /\ Ran700
    /\ Running
    /\ \A x \in Sides : pair.side[x].stream[1].status = "open"
    /\ "ping" \in pair.seen["acc"]

\* C14: in a running pair with no handler, once the listener's plex or the
\* listener's end of a channel has been destroyed, both feeds end by a
\* terminal error within interval / 2 (a quarter of the 2000 time units
\* allowed for interval = 500, transport latency apart): the listener's by
\* its plex closing, the initiator's by its plex closing or by its next
\* ping finding the stream destroyed; neither stays open.
C14_BothFeedsError ==
    pair.since > HalfInterval =>
        \A x \in Sides : /\ pair.side[x].subscriber = "error"
                          /\ pair.side[x].obs.errorsDelivered = 1
                          /\ pair.side[x].obs.terminalCause \in Causes

\* the listener's end of the channel was destroyed at 700 time units; the
\* initiator's ping timer found it, and the listener was ended by the
\* initiator's destroy(plex)
C14_Witness ==
    /\ pair.since > HalfInterval
    /\ pair.now > 2 * HalfInterval
    /\ pair.side["ini"].obs.terminalCause = "StreamDestroyed"
    /\ pair.side["acc"].obs.terminalCause = "PlexClosed"
    /\ \A x \in Sides : pair.seen[x] # {}

\* only this Session runs, with no handler, and its provider has neither
\* emitted a stream nor ended; nothing has disturbed it from outside
NeverOpened ==
    /\ onPingPongFailure = "absent"
    /\ ~obs.opened
    /\ ~obs.fault
    /\ conn # "done" \/ isDisconnected

\* reconnectAttemptCount + 1 attempts of connectionTimeout each, retryDelay
\* apart
AllAttempts ==
    (ReconnectAttemptCount + 1) * ConnectionTimeout
        + ReconnectAttemptCount * RetryDelay

\* C15: a Session whose peer never opens the channel ends by a terminal
\* error, the timeout of its last attempt, when reconnectAttemptCount + 1
\* attempts of connectionTimeout each have failed, retryDelay apart: not
\* earlier, not later, never by completion; and its plex is destroyed.
C15_EndsWhenAttemptsExhausted ==
    NeverOpened =>
        IF subscriber = "open"
        THEN /\ ~isDisconnected
             /\ obs.waited <= AllAttempts
             /\ connTimer # NoTimer \/ retryTimer # NoTimer
             /\ obs.waited = AllAttempts => connTimer = 0
        ELSE /\ subscriber = "error"
             /\ obs.terminalCause = "AcquireTimeout"
             /\ obs.waited = AllAttempts
             /\ soFar = ReconnectAttemptCount + 1
             /\ obs.errorsDelivered = 1
             /\ plexDestroyed

\* the initiator gave up after the last attempt
C15_Witness ==
    /\ NeverOpened
    /\ isInitiator
    /\ subscriber = "error"
    /\ obs.waited = AllAttempts
    /\ plexDestroyed

\* C16: what the failure handler throws is caught inside performDisconnect:
\* no callback of the Session ends by an exception, and after the call the
\* Session is disconnected, without data$ and ping timer, its channel and
\* plex destroyed, as it is when the handler returns.
C16_HandlerExceptionSwallowed ==
    onPingPongFailure \in {"throws", "throwsNullish"} =>
        /\ ~obs.escaped
        /\ isDisconnected =>
              /\ obs.handlerCalls = 1
              /\ plexDestroyed
              /\ inner = NoStream
              /\ \A id \in StreamIds :
                    ~stream[id].data /\ stream[id].ping = NoTimer

\* streams that are open and have a data$ subscribed
Handled == {id \in StreamIds : stream[id].status = "open" /\ stream[id].data}

\* C17: a Session has at most one open channel with message handling: when
\* a new channel is acquired, the one before it has been destroyed and its
\* data$ unsubscribed.
C17_AtMostOneChannel == Cardinality(Handled) <= 1

\* streams whose interval(_interval / 2) is running
Pinging == {id \in StreamIds : stream[id].ping # NoTimer}

\* C18: a ping timer runs only in an initiator Session that is not
\* disconnected, and only for the channel the Session holds, so at most
\* one at a time: none for a channel the retry policy has abandoned; and a
\* listening Session never writes "ping".
C18_PingTimerOnlyForHeldChannel ==
    /\ \A id \in Pinging : /\ isInitiator
                            /\ ~isDisconnected
                            /\ id = inner
    /\ Cardinality(Pinging) <= 1
    /\ ~obs.badPing

\* C19: the consumer receives only "ping" and "pong" events, then at most
\* one terminal signal, an error (completion is never signalled), and no
\* event after it.
C19_PingPongThenOneTerminal ==
    /\ ~obs.badEvent
    /\ ~obs.afterEnd
    /\ obs.errorsDelivered <= 1
    /\ obs.errorsDelivered = 1 <=> subscriber = "error"
    /\ subscriber = "error" <=> obs.terminalCause # NoCause

\* a feed that carried events ended by the error of a destroyed stream,
\* and messages kept arriving on another stream
C19_Witness ==
    /\ obs.events
    /\ subscriber = "error"
    /\ obs.terminalCause = "StreamDestroyed"
    /\ \E id \in StreamIds : stream[id].status = "open"

\* the failure has been reported the way the configuration asks for
Reported ==
    /\ isDisconnected
    /\ onPingPongFailure = "absent" => subscriber # "open"
    /\ HandlerConfigured => obs.handlerCalls = 1

\* C20: a close notification of the plex, whenever it comes, and a missed
\* heartbeat both end the Session through performDisconnect, with the same
\* failure reporting.
C20_CloseLikeMissedHeartbeat ==
    /\ (plexDestroyed /\ ~plexClosePending) => Reported
    /\ (obs.sinceArm >= Interval /\ hbTimer # 0) => Reported

\* the part of C20 that is about the close notification alone
CloseNotificationReported == (plexDestroyed /\ ~plexClosePending) => Reported

\* C21: retry's counter stays within 0 .. reconnectAttemptCount while retry
\* has not given up, goes up by one on each failed attempt, and is 0 from the
\* moment a channel is opened until the next failure, so that the failures
\* after an open have the whole budget.
C21_CounterResetOnOpen ==
    /\ [](/\ soFar \in 0 .. ReconnectAttemptCount
                            + (IF obs.exhausted THEN 1 ELSE 0)
          /\ conn = "open" => soFar = 0)
    /\ [][(~isDisconnected' /\ obs'.consecFails = obs.consecFails + 1)
            => soFar' = soFar + 1]_vars

\* what holds of the counter: it counts the failed attempts of the whole
\* Session, whatever was opened in between
CounterNeverReset ==
    /\ soFar \in 0 .. ReconnectAttemptCount + 1
    /\ ~isDisconnected => soFar >= obs.consecFails

\* C22: from the start of the Session a heartbeat deadline is pending while
\* the Session is live, before any channel and any "pong"; and once
\* `interval` has gone by without a "pong", from the start on, the deadline
\* has run out and performDisconnect has been called.
C22_InitialDeadlineArmed ==
    /\ obs.pdCalls = 0 => hbTimer \in 0 .. Interval
    /\ (obs.missed /\ hbTimer # 0) => obs.pdCalls > 0

\* C23: isDisconnected is false until performDisconnect is first called,
\* true from that call on, and never false again; the first call sets it
\* before anything else it does, so that the performDisconnect calls made
\* from inside it (by the data$ that completes, by the teardown) find it set
\* and do not run the body again, and nothing of the teardown is there
\* while it is false.
C23_FlagMonotonic ==
    /\ [](/\ isDisconnected <=> obs.pdCalls > 0
          /\ obs.cleanupRuns = IF isDisconnected THEN 1 ELSE 0
          /\ ~isDisconnected =>
                /\ heartbeatSub /\ plexCloseSub /\ subscriber = "open"
                /\ obs.plexDestroys = 0 /\ obs.handlerCalls = 0
                /\ obs.errorsDelivered = 0)
    /\ [][isDisconnected => isDisconnected']_vars

\* the first call, made by plex.close$, was called again from inside itself
\* and the Session went on afterwards
C23_Witness ==
    /\ isDisconnected
    /\ obs.firstCause = "PlexClosed"
    /\ obs.pdCalls >= 2
    /\ onPingPongFailure = "function"
    /\ obs.cancelCalls > 0

\* C24: once performDisconnect has been called, whatever the cause and the
\* handler, nothing of the Session is pending: no heartbeat deadline, no
\* ping timer, no retry-delay timer, no acquisition attempt, and no channel
\* is held.
C24_NothingPendingAfterDisconnect ==
    isDisconnected =>
        /\ hbTimer = NoTimer
        /\ \A id \in StreamIds : stream[id].ping = NoTimer
        /\ retryTimer = NoTimer
        /\ connTimer = NoTimer /\ conn \notin {"pending", "open", "retryWait"}
        /\ inner = NoStream

\* the part of C24 that holds: the heartbeat deadline and the ping timers
TimersOfChannelReleased ==
    isDisconnected =>
        /\ hbTimer = NoTimer
        /\ \A id \in StreamIds : stream[id].ping = NoTimer
        /\ inner = NoStream

\* and all of C24 when there is no onPingPongFailure
ReleasedWithoutHandler ==
    onPingPongFailure = "absent" => C24_NothingPendingAfterDisconnect

\* C25: once performDisconnect has been called, for whatever cause, the
\* plex is destroyed: performDisconnect destroys it when it finds it not
\* destroyed, once, and leaves a destroyed plex alone; nothing else of the
\* Session destroys the plex.
C25_PlexDestroyedOnDisconnect ==
    /\ isDisconnected => plexDestroyed
    /\ obs.plexDestroys <= 1
    /\ obs.plexDestroys = 1 => isDisconnected

\* a cancellation of a Session with an open channel destroyed the plex
C25_Witness ==
    /\ obs.firstCause = "Unsubscribed"
    /\ obs.cancelInner # NoStream
    /\ obs.plexDestroys = 1
    /\ plexDestroyed

\* C26: a message that is neither "ping" nor "pong", on whatever stream the
\* Session listens to and in whatever state, changes nothing: the state
\* after the callback is the state before it, and so is everything observed
\* of the Session (events, writes, the time since heartbeatSubject.next(),
\* the calls of performDisconnect).
C26_OtherMessageIgnored ==
    \A id \in StreamIds :
        (stream[id].status = "open" /\ stream[id].data) =>
            LET got == [Cur EXCEPT !.out = << Io("recv", id, "other") >>]
                now == onData(got, id, "other")
                Seen(o) == [o EXCEPT !.ignored = FALSE, !.answeredAgain = FALSE]
            IN  /\ now = got
                /\ Seen(Observe(now)) = Seen(obs)

\* such a message has just arrived one time unit before `interval` was over:
\* the time since heartbeatSubject.next() is what it was, and nothing has
\* been written or emitted
C26_Witness ==
    /\ obs.ignored
    /\ obs.sinceArm = Interval - 1
    /\ ~obs.events /\ ~obs.writes
    /\ ~isDisconnected
    /\ obs.pdCalls = 0

\* C27: in the callback of one message the effects come in order: for a
\* "ping" the "pong" is written before the "ping" event is emitted, and
\* heartbeatSubject.next() is not called; for a "pong"
\* heartbeatSubject.next() is called before the "pong" event is emitted.
C27_EffectsInOrder == ~obs.misordered

\* a listener has handled a "pong" and nothing else: the time since
\* heartbeatSubject.next() is 0 again after time had passed, and the event
\* has been emitted
C27_Witness ==
    /\ ~isInitiator
    /\ obs.events /\ ~obs.writes
    /\ obs.sinceArm = 0
    /\ obs.waited = 0 /\ obs.opened
    /\ connTimer \in 0 .. (ConnectionTimeout - 1)
    /\ ~isDisconnected

\* C28: when the stream of the channel the Session holds ends or is
\* destroyed by the other side, the Session calls performDisconnect in the
\* callback of that event: between callbacks the Session never holds a
\* channel whose stream is gone, and it is never live while a stream it
\* listened to is gone.
C28_StreamEndEscalates ==
    /\ inner # NoStream => stream[inner].status = "open"
    /\ \A id \in StreamIds : stream[id].status = "destroyed" => isDisconnected

\* what holds instead: the end of a stream is never the cause reported; the
\* complete callback of data$ only ever runs inside a performDisconnect
\* that another cause started
StreamEndNeverTheCause ==
    /\ obs.firstCause # "StreamCompleted"
    /\ obs.handlerCause # "StreamCompleted"
    /\ obs.terminalCause # "StreamCompleted"

\* C29: every tick of an initiator's interval(), on a stream that is not
\* destroyed, writes one "ping" on it and emits one "ping" event, and does
\* not call performDisconnect; on a destroyed stream it writes and emits
\* nothing and calls performDisconnect('Stream destroyed') in that same
\* callback.  Only an initiator has ticks.
C29_TickWritesOrDisconnects ==
    /\ ~obs.badTick
    /\ ~isInitiator => \A id \in StreamIds : stream[id].ping = NoTimer
    /\ obs.firstCause = "StreamDestroyed" => isInitiator /\ isDisconnected

\* the first tick found the stream destroyed: the Session is disconnected
\* for that cause and has written and emitted nothing
C29_Witness ==
    /\ isInitiator
    /\ obs.firstCause = "StreamDestroyed"
    /\ isDisconnected
    /\ ~obs.events /\ ~obs.lateWrite

\* C30: a live Session that has handled a "pong" has one heartbeat deadline
\* pending, armed by the last "pong" for `interval`: what is left of it is
\* `interval` less the time since that "pong"; and the missed-heartbeat
\* disconnect comes from that deadline running out, with nothing pending
\* after it.
C30_OneDeadlineRearmedByPong ==
    /\ (/\ ~isInitiator /\ obs.events /\ ~obs.writes
        /\ ~isDisconnected /\ ~obs.missed)
            => hbTimer = Interval - obs.sinceArm
    /\ obs.firstCause = "HeartbeatTimeout" => hbTimer = NoTimer

\* what holds instead: no deadline is ever pending, and a missed heartbeat
\* is never the cause of a disconnect
NoDeadlineEverPending ==
    /\ hbTimer = NoTimer
    /\ obs.firstCause # "HeartbeatTimeout"

\* C31: no acquisition attempt is started after performDisconnect has been
\* called: a retry that was pending at the disconnect is abandoned (its
\* timer is gone, the pipeline is neither waiting nor subscribed again) and
\* no channel is held afterwards, with or without a handler.
C31_NoAttemptAfterDisconnect ==
    /\ ~obs.lateAttempt
    /\ isDisconnected =>
          /\ retryTimer = NoTimer
          /\ conn \notin {"pending", "retryWait"}
          /\ inner = NoStream

\* what holds instead: the retry is abandoned when there is no
\* onPingPongFailure, and no channel is held after the disconnect
RetryAbandonedWithoutHandler ==
    /\ onPingPongFailure = "absent" => C31_NoAttemptAfterDisconnect
    /\ isDisconnected => inner = NoStream

\* C32: in a pair where nothing was destroyed from outside (every message
\* delivered, no plex close, no cancellation), the listener Session is not
\* disconnected while the initiator Session is live and pinging, and its
\* heartbeat deadline is never the cause of its disconnect.
C32_AcceptorStaysLive ==
    /\ (pair.since = NoClock /\ ~pair.side["ini"].isDisconnected)
          => ~pair.side["acc"].isDisconnected
    /\ pair.side["acc"].obs.firstCause # "HeartbeatTimeout"

\* the part of C32 that holds: the listener's heartbeat$ has no deadline
\* pending and never disconnects it
AcceptorMonitorNeverFires ==
    /\ pair.side["acc"].hbTimer = NoTimer
    /\ pair.side["acc"].obs.firstCause # "HeartbeatTimeout"

\* C33: the acquisition timeout runs only until the channel is opened: an
\* attempt that holds an open channel has no connectionTimeout pending, and
\* a Session that has opened a channel and met no provider error, no
\* destruction and no cancellation is never disconnected by an acquisition
\* timeout.
C33_TimeoutOnlyUntilOpen ==
    /\ conn = "open" => connTimer = NoTimer
    /\ (obs.firstCause = "AcquireTimeout" /\ ~obs.fault) => ~obs.opened

\* what holds instead: the timeout is restarted by the opened channel and
\* is pending for as long as the attempt holds it
TimeoutRunsWhileOpen ==
    (conn = "open" /\ ~isDisconnected) => connTimer \in 0 .. ConnectionTimeout

\* C34: whatever onPingPongFailure is (absent, a function, a value that is
\* not a function), once performDisconnect has been called the failure was
\* reported on exactly one path: the handler was called or the cause was
\* delivered to the consumer as the terminal error, not both and not
\* neither. Stated for the causes other than the consumer's own
\* unsubscription, after which nothing can be delivered (C6, C10).
C34_ExactlyOnePath ==
    (obs.pdCalls > 0 /\ obs.firstCause # "Unsubscribed") =>
        obs.handlerCalls + obs.errorsDelivered = 1

\* what holds instead: never both; exactly one when onPingPongFailure is a
\* function, and when it is absent and the consumer had not unsubscribed;
\* neither when it is set to something that is not a function
OnePathUnlessNotAFunction ==
    /\ ~(obs.handlerCalls > 0 /\ obs.errorsDelivered > 0)
    /\ (obs.pdCalls > 0 /\ HandlerConfigured) =>
            obs.handlerCalls = 1 /\ obs.errorsDelivered = 0
    /\ (obs.pdCalls > 0 /\ onPingPongFailure = "absent"
            /\ obs.firstCause # "Unsubscribed") =>
            obs.handlerCalls = 0 /\ obs.errorsDelivered = 1
    /\ onPingPongFailure = "truthy" =>
            obs.handlerCalls = 0 /\ obs.errorsDelivered = 0

====
